---- MODULE Spec2Model ----
(***************************************************************************)
(* llama-mesh-blender: the llama.cpp binary / gguf downloader, the         *)
(* line-oriented subprocess reader (LlamaCppWrapper.generate_oneshot) and  *)
(* the Blender operator that builds a mesh from the streamed OBJ text      *)
(* (GenerateMesh.execute).                                                 *)
(*                                                                         *)
(* Text is a sequence of one-character strings, so that strip(), split(),  *)
(* startswith(), int() and float() are computed character by character.    *)
(***************************************************************************)
EXTENDS Integers, Sequences, FiniteSets

\* ------------------------------------------------------------------ bounds
\* requests (GenerateMesh.execute calls) in one behaviour
MaxRequests == 2
\* stdout lines one subprocess produces before it closes its stdout
MaxLines == 3
\* largest 1-based face index of the pure-function inputs (two digits)
MaxIndex == 11

\* --------------------------------------------------------------- text layer
Space == {" ", "\t", "\n"}
Digit == {"0", "1", "2", "3", "4", "5", "6", "7", "8", "9"}

DigitVal(c) ==
    CASE c = "0" -> 0 [] c = "1" -> 1 [] c = "2" -> 2 [] c = "3" -> 3
      [] c = "4" -> 4 [] c = "5" -> 5 [] c = "6" -> 6 [] c = "7" -> 7
      [] c = "8" -> 8 [] c = "9" -> 9

\* F applied to the value of e, which is computed once
With(e, F(_)) == CHOOSE r \in {F(x) : x \in {e}} : TRUE

RECURSIVE LStrip(_)
LStrip(s) == IF s # <<>> /\ Head(s) \in Space THEN LStrip(Tail(s)) ELSE s

RECURSIVE RStrip(_)
RStrip(s) ==
    IF s # <<>> /\ s[Len(s)] \in Space THEN RStrip(SubSeq(s, 1, Len(s) - 1)) ELSE s

\* str.strip()
Strip(s) == RStrip(LStrip(s))

\* str.startswith(p)
StartsWith(s, p) == Len(s) >= Len(p) /\ SubSeq(s, 1, Len(p)) = p

\* s[2:]
From2(s) == SubSeq(s, 3, Len(s))

\* str.split() with no argument: runs of whitespace separate, no empty tokens
RECURSIVE SplitAcc(_, _, _)
SplitAcc(s, cur, acc) ==
    IF s = <<>>
    THEN IF cur = <<>> THEN acc ELSE Append(acc, cur)
    ELSE IF Head(s) \in Space
         THEN SplitAcc(Tail(s), <<>>, IF cur = <<>> THEN acc ELSE Append(acc, cur))
         ELSE SplitAcc(Tail(s), Append(cur, Head(s)), acc)

Split(s) == SplitAcc(s, <<>>, <<>>)

\* str.lower() on the letters the model uses
LowerChar(c) ==
    CASE c = "R" -> "r" [] c = "C" -> "c" [] c = "V" -> "v" [] c = "F" -> "f"
      [] OTHER -> c

Lower(s) == [i \in 1..Len(s) |-> LowerChar(s[i])]

\* "_".join(words)
RECURSIVE JoinUnderscore(_)
JoinUnderscore(ws) ==
    IF ws = <<>> THEN <<>>
    ELSE IF Len(ws) = 1 THEN ws[1]
    ELSE ws[1] \o <<"_">> \o JoinUnderscore(Tail(ws))

AllDigits(s) == s # <<>> /\ \A i \in 1..Len(s) : s[i] \in Digit

RECURSIVE DigitsVal(_)
DigitsVal(s) ==
    IF s = <<>> THEN 0 ELSE 10 * DigitsVal(SubSeq(s, 1, Len(s) - 1)) + DigitVal(s[Len(s)])

Unsigned(tok) == IF tok # <<>> /\ Head(tok) \in {"-", "+"} THEN Tail(tok) ELSE tok
Negative(tok) == tok # <<>> /\ Head(tok) = "-"

\* int(x): an optional sign and decimal digits; anything else raises ValueError
IntOk(tok) == AllDigits(Unsigned(tok))
IntVal(tok) == IF Negative(tok) THEN 0 - DigitsVal(Unsigned(tok)) ELSE DigitsVal(Unsigned(tok))

\* float(x): an optional sign, digits, an optional point and digits.  A value is
\* the record [neg, int, frac]: the integer part and the fraction digits
\* without trailing zeros, so "1", "1." and "1.0" denote one value.
RECURSIVE FindPoint(_, _)
FindPoint(s, i) ==
    IF i > Len(s) THEN 0 ELSE IF s[i] = "." THEN i ELSE FindPoint(s, i + 1)
\* index of the first ".", 0 when there is none
PointAt(s) == FindPoint(s, 1)

RECURSIVE DropZeros(_)
DropZeros(s) ==
    IF s # <<>> /\ s[Len(s)] = "0" THEN DropZeros(SubSeq(s, 1, Len(s) - 1)) ELSE s

\* (\E x \in {e} : ... binds x to the value of e, computed once)
FloatOk(tok) ==
    \E u \in {Unsigned(tok)} : \E p \in {PointAt(u)} :
        /\ Len(u) > (IF p = 0 THEN 0 ELSE 1)
        /\ \A i \in 1..Len(u) : i = p \/ u[i] \in Digit

FloatVal(tok) ==
    With(Unsigned(tok), LAMBDA u :
        With(PointAt(u), LAMBDA p :
            [neg |-> Negative(tok),
             int |-> DigitsVal(IF p = 0 THEN u ELSE SubSeq(u, 1, p - 1)),
             frac |-> DropZeros(IF p = 0 THEN <<>> ELSE SubSeq(u, p + 1, Len(u)))]))

\* str.splitlines() on "\n": no empty last line after a final newline
RECURSIVE SplitLinesAcc(_, _, _)
SplitLinesAcc(s, cur, acc) ==
    IF s = <<>>
    THEN IF cur = <<>> THEN acc ELSE Append(acc, cur)
    ELSE IF Head(s) = "\n"
         THEN SplitLinesAcc(Tail(s), <<>>, Append(acc, cur))
         ELSE SplitLinesAcc(Tail(s), Append(cur, Head(s)), acc)

SplitLines(s) == SplitLinesAcc(s, <<>>, <<>>)

\* -------------------------------------------------- _wrapper.py: configuration
\* platform.system() of the machine, and the systems a marker may name
Linux == <<"L", "i", "n", "u", "x">>
Windows == <<"W", "i", "n", "d", "o", "w", "s">>
PlatformSystem == Windows
Systems == {Linux, Windows}

\* _LLAMA_CPP_BUILD, and the build an earlier release of the add-on targeted
LLAMA_CPP_BUILD == <<"b", "4", "2", "2", "7">>
OlderBuild == <<"b", "4", "1", "0", "0">>
Builds == {LLAMA_CPP_BUILD, OlderBuild}

\* zip_ref.namelist() of the release archive, in archive order
ArchiveNames == <<"llama-cli", "libllama">>

\* a file of bin/: its name and the archive (system, build) its bytes come from
BinFile(n, sys, build) == [name |-> n, sys |-> sys, build |-> build]
FullBin(sys, build) == {BinFile(ArchiveNames[i], sys, build) : i \in 1..Len(ArchiveNames)}

\* f"{platform.system()}\n{_LLAMA_CPP_BUILD}"
MarkerText(sys, build) == sys \o <<"\n">> \o build

VARIABLES
    pc,         \* position of the (single) UI thread
    marker,     \* text of the version_info file
    bin,        \* files of bin/
    ggufFinal,  \* gguf/<model name> exists
    ggufTemp,   \* gguf/<model name>.temp: "none", "partial" or "complete"
    ebContent,  \* _ensure_binary: _content
    ebIdx,      \* _ensure_binary: archive members extracted so far
    ebLog,      \* effects of the running / last _ensure_binary call, in order
    req,        \* number of the current (last started) execute call
    proc,       \* per request: its subprocess, "none" | "running" | "exited" | "killed"
    gen,        \* per request: its generator
    spawns,     \* per request: Popen calls that returned a process
    outcome,    \* per request: "none" | "running" | "finished" | "error"
    nread,      \* lines read from the current subprocess' stdout
    curLine,    \* the string the generator has yielded last
    named,      \* execute: the first line was taken as the name
    name,       \* execute: name
    verts,      \* execute: verts
    faces,      \* execute: faces
    mesh,       \* geometry of the bpy mesh: [verts, faces]
    clears,     \* mesh.clear_geometry() calls of this request
    builds,     \* mesh.from_pydata() calls of this request
    redraws,    \* _redraw() calls of this request
    hist        \* what the lines yielded in this request meant, in stream order

fileVars == <<marker, bin, ggufFinal, ggufTemp>>
ebVars == <<ebContent, ebIdx, ebLog>>
reqVars == <<req, proc, gen, spawns, outcome, nread>>
execVars == <<curLine, named, name, verts, faces, mesh, clears, builds, redraws, hist>>
vars == <<pc, fileVars, ebVars, reqVars, execVars>>

Requests == 1..MaxRequests
NoMesh == [verts |-> <<>>, faces |-> <<>>]

\* the locals of execute and the observations of one request, before it runs
ExecReset ==
    /\ curLine' = <<>>
    /\ named' = FALSE
    /\ name' = <<>>
    /\ verts' = <<>>
    /\ faces' = <<>>
    /\ mesh' = NoMesh
    /\ clears' = 0
    /\ builds' = 0
    /\ redraws' = 0
    /\ hist' = <<>>

\* Installations the program leaves behind: a fresh one (touch() made an empty
\* marker, mkdir() an empty bin/), or one completed by this code for some
\* system and build.
Init ==
    /\ pc = "unloaded"
    /\ \/ marker = <<>> /\ bin = {}
       \/ \E sys \in Systems, build \in Builds :
            marker = MarkerText(sys, build) /\ bin = FullBin(sys, build)
    /\ ggufFinal \in BOOLEAN
    /\ ggufTemp = "none"
    /\ ebContent = <<>>
    /\ ebIdx = 0
    /\ ebLog = <<>>
    /\ req = 0
    /\ proc = [r \in Requests |-> "none"]
    /\ gen = [r \in Requests |-> "none"]
    /\ spawns = [r \in Requests |-> 0]
    /\ outcome = [r \in Requests |-> "none"]
    /\ nread = 0
    /\ curLine = <<>>
    /\ named = FALSE
    /\ name = <<>>
    /\ verts = <<>>
    /\ faces = <<>>
    /\ mesh = NoMesh
    /\ clears = 0
    /\ builds = 0
    /\ redraws = 0
    /\ hist = <<>>

\* ------------------------------------------------ _wrapper.py: _ensure_binary
\* `import` of the wrapper module: the class body of LlamaCppWrapper calls
\* _ensure_binary, which first reads the marker.  A failed import may be tried
\* again (the add-on is enabled again).
ImportModule ==
    /\ pc \in {"unloaded", "import_failed"}
    /\ ebContent' = SplitLines(Strip(marker))
    /\ ebIdx' = 0
    /\ ebLog' = <<>>
    /\ pc' = "eb_check"
    /\ UNCHANGED <<fileVars, reqVars, execVars>>

old_binary_os == IF ebContent # <<>> THEN ebContent[1] ELSE <<>>
old_binary_build == IF ebContent # <<>> THEN ebContent[2] ELSE <<>>

\* a check that forgets the build id
VersionMatchesSystemOnly == old_binary_os = PlatformSystem

\* `if old_binary_os == platform.system() and old_binary_build == _LLAMA_CPP_BUILD`
VersionMatches == old_binary_os = PlatformSystem /\ old_binary_build = LLAMA_CPP_BUILD

\* _content[1] of a one-line marker raises IndexError
EbIndexError == Len(ebContent) = 1

EbReturnEarly ==
    /\ pc = "eb_check"
    /\ ~EbIndexError
    /\ VersionMatches
    /\ pc' = "eb_returned"
    /\ UNCHANGED <<fileVars, ebVars, reqVars, execVars>>

\* the marker differs: `for file in _BINARY_DIR.iterdir(): file.unlink()`
EbClear ==
    /\ pc = "eb_check"
    /\ IF EbIndexError
       THEN pc' = "import_failed" /\ UNCHANGED <<bin, ebLog>>
       ELSE /\ ~VersionMatches
            /\ bin' = {}
            /\ ebLog' = Append(ebLog, "clear")
            /\ pc' = "eb_download"
    /\ UNCHANGED <<marker, ggufFinal, ggufTemp, ebContent, ebIdx, reqVars, execVars>>

\* _progressive_download(_BINARY_URL, zip_data) returns
EbDownload ==
    /\ pc = "eb_download"
    /\ ebLog' = Append(ebLog, "download")
    /\ pc' = "eb_extract"
    /\ UNCHANGED <<fileVars, ebContent, ebIdx, reqVars, execVars>>

\* urlopen or resp.read raises: the error leaves _ensure_binary and the import
EbDownloadFail ==
    /\ pc = "eb_download"
    /\ ebLog' = Append(ebLog, "download")
    /\ pc' = "import_failed"
    /\ UNCHANGED <<fileVars, ebContent, ebIdx, reqVars, execVars>>

\* one turn of `for zipped_file in zip_ref.namelist(): ... write_bytes(...)`
EbExtract ==
    /\ pc = "eb_extract"
    /\ ebIdx < Len(ArchiveNames)
    /\ bin' = bin \cup {BinFile(ArchiveNames[ebIdx + 1], PlatformSystem, LLAMA_CPP_BUILD)}
    /\ ebIdx' = ebIdx + 1
    /\ ebLog' = Append(ebLog, "extract")
    /\ UNCHANGED <<pc, marker, ggufFinal, ggufTemp, ebContent, reqVars, execVars>>

\* ZipFile(), zip_ref.read() or write_bytes() raises
EbExtractFail ==
    /\ pc = "eb_extract"
    /\ ebIdx < Len(ArchiveNames)
    /\ pc' = "import_failed"
    /\ UNCHANGED <<fileVars, ebVars, reqVars, execVars>>

\* `_VER_INFO_FILE.write_text(...)`, the last statement
EbWriteMarker ==
    /\ pc = "eb_extract"
    /\ ebIdx = Len(ArchiveNames)
    /\ marker' = MarkerText(PlatformSystem, LLAMA_CPP_BUILD)
    /\ ebLog' = Append(ebLog, "marker")
    /\ pc' = "eb_returned"
    /\ UNCHANGED <<bin, ggufFinal, ggufTemp, ebContent, ebIdx, reqVars, execVars>>

\* the class body goes on (binary_path), the import completes and the locals of
\* _ensure_binary are gone
ImportDone ==
    /\ pc = "eb_returned"
    /\ ebContent' = <<>>
    /\ ebIdx' = 0
    /\ ebLog' = <<>>
    /\ pc' = "idle"
    /\ UNCHANGED <<fileVars, reqVars, execVars>>

\* Blender is closed and started again before any mesh was generated: the
\* module is imported anew, and _ensure_binary reads the marker it left
Restart ==
    /\ pc = "idle"
    /\ req = 0
    /\ pc' = "unloaded"
    /\ UNCHANGED <<fileVars, ebVars, reqVars, execVars>>

\* --------------------------------------------------- __init__.py: conversions
\* _obj_vertex_to_bpy: tuple(map(float, line[2:].split())); float() raises
\* ValueError on a token that is no number
\* a conversion that swaps y and z
VertexAxesSwapped(line) ==
    LET t == Split(From2(line)) IN
        [i \in 1..Len(t) |-> FloatVal(t[IF i = 2 THEN 3 ELSE IF i = 3 THEN 2 ELSE i])]

\* a conversion that keeps the 1-based indices
FaceNotDecremented(line) ==
    [i \in 1..Len(Split(From2(line))) |-> IntVal(Split(From2(line))[i])]

\* a name that keeps the case of the words
MeshNameKeepCase(first) == JoinUnderscore(Split(Strip(first)))

\* `line.startswith("v")`
StartsWithV(line) == StartsWith(line, <<"v">>)

VertexOk(line) == \E toks \in {Split(From2(line))} : \A i \in 1..Len(toks) : FloatOk(toks[i])
obj_vertex_to_bpy(line) ==
    With(Split(From2(line)), LAMBDA toks : [i \in 1..Len(toks) |-> FloatVal(toks[i])])

\* _obj_face_to_bpy: tuple((int(x) - 1) for x in line[2:].split())
FaceOk(line) == \E toks \in {Split(From2(line))} : \A i \in 1..Len(toks) : IntOk(toks[i])
obj_face_to_bpy(line) ==
    With(Split(From2(line)), LAMBDA toks : [i \in 1..Len(toks) |-> IntVal(toks[i]) - 1])

\* "_".join(word.lower() for word in (first.strip().split()))
MeshName(first) ==
    With(Split(Strip(first)), LAMBDA words :
        JoinUnderscore([i \in 1..Len(words) |-> Lower(words[i])]))

\* `line.startswith("v ")`, `line.startswith("f ")`
IsVertexLine(line) == StartsWith(line, <<"v", " ">>)
IsFaceLine(line) == ~IsVertexLine(line) /\ StartsWith(line, <<"f", " ">>)

\* ------------------------------------------------------ the subprocess' stdout
\* What llama-cli prints is described by what it means: a line of text (with
\* the name it would give a mesh), a vertex or a face.  Written renders the
\* description as the characters readline() returns; the program sees only
\* those characters.
Num(neg, int, frac) == [neg |-> neg, int |-> int, frac |-> frac]
Whole(n) == Num(FALSE, n, <<>>)

TextLine(text, expect) ==
    [kind |-> "text", vals |-> <<>>, sep |-> <<" ">>, style |-> "short",
     text |-> text, expect |-> expect]
VertexLine(x, y, z, sep, style) ==
    [kind |-> "v", vals |-> <<x, y, z>>, sep |-> sep, style |-> style,
     text |-> <<>>, expect |-> <<>>]
FaceLine(i, j, k, sep) ==
    [kind |-> "f", vals |-> <<Whole(i), Whole(j), Whole(k)>>, sep |-> sep,
     style |-> "short", text |-> <<>>, expect |-> <<>>]

DigitChar(d) ==
    CASE d = 0 -> "0" [] d = 1 -> "1" [] d = 2 -> "2" [] d = 3 -> "3" [] d = 4 -> "4"
      [] d = 5 -> "5" [] d = 6 -> "6" [] d = 7 -> "7" [] d = 8 -> "8" [] d = 9 -> "9"

RECURSIVE FormatNat(_)
FormatNat(n) ==
    IF n < 10 THEN <<DigitChar(n)>> ELSE FormatNat(n \div 10) \o <<DigitChar(n % 10)>>

\* "1", "0.5", "-1" (short) or "1.0", "0.50", "-1.0" (padded)
FormatNum(v, style) ==
    (IF v.neg THEN <<"-">> ELSE <<>>)
        \o FormatNat(v.int)
        \o (IF v.frac = <<>> /\ style = "short" THEN <<>> ELSE <<".">> \o v.frac)
        \o (IF style = "padded" THEN <<"0">> ELSE <<>>)

\* after the one space that follows "v" / "f", any further whitespace
Pad(sep) == IF sep = <<" ">> THEN <<>> ELSE sep

Written(g) ==
    IF g.kind = "text"
    THEN g.text \o <<"\n">>
    ELSE <<g.kind, " ">> \o Pad(g.sep)
            \o FormatNum(g.vals[1], g.style) \o g.sep
            \o FormatNum(g.vals[2], g.style) \o g.sep
            \o FormatNum(g.vals[3], g.style) \o <<"\n">>

\* lines of one generation, as in _TEST_DATA: a name, a code fence, vertices
\* and faces; also a vertex normal and a vertex the model garbled
GivenName == TextLine(<<"R", "e", "d", " ", "C", "u", "b", "e">>,
                      <<"r", "e", "d", "_", "c", "u", "b", "e">>)
GivenFence == TextLine(<<"~", "~", "~", "o", "b", "j">>, <<"~", "~", "~", "o", "b", "j">>)
GivenNormal == TextLine(<<"v", "n", " ", "0", " ", "1", " ", "0">>,
                        <<"v", "n", "_", "0", "_", "1", "_", "0">>)
GivenGarbled == TextLine(<<"v", " ", "1", " ", "x", " ", "3">>,
                         <<"v", "_", "1", "_", "x", "_", "3">>)
Half == Num(FALSE, 0, <<"5">>)
MinusOne == Num(TRUE, 1, <<>>)
StreamLines ==
    { GivenName, GivenFence, GivenNormal, GivenGarbled,
      VertexLine(Whole(1), Whole(2), Whole(3), <<" ">>, "short"),
      VertexLine(Half, MinusOne, Whole(4), <<" ">>, "padded"),
      FaceLine(1, 2, 3, <<" ">>),
      FaceLine(3, 1, 2, <<" ">>) }

\* ----------------------------------------------- __init__.py: execute, part 1
\* `iterator = self._prep_line_iterator()`: a generator object, not yet started
StartExecute ==
    /\ pc = "idle"
    /\ req < MaxRequests
    /\ req' = req + 1
    /\ gen' = [gen EXCEPT ![req + 1] = "created"]
    /\ outcome' = [outcome EXCEPT ![req + 1] = "running"]
    /\ nread' = 0
    /\ ExecReset
    /\ pc' = "ex_first"
    /\ UNCHANGED <<fileVars, ebVars, proc, spawns>>

\* `next(iterator)` starts the generator: LlamaCppWrapper(_GGUF_URL) calls
\* _ensure_gguf from its constructor
NextStart ==
    /\ pc = "ex_first"
    /\ gen' = [gen EXCEPT ![req] = "running"]
    /\ pc' = "gg_check"
    /\ UNCHANGED <<fileVars, ebVars, req, proc, spawns, outcome, nread, execVars>>

\* an exception leaves the generator (it is finished) and then execute
RequestRaises ==
    /\ gen' = [gen EXCEPT ![req] = "finished"]
    /\ outcome' = [outcome EXCEPT ![req] = "error"]
    /\ pc' = "idle"

\* ---------------------------------------------------- _wrapper.py: _ensure_gguf
\* a constructor that does not look for the model file
GgufNotChecked ==
    /\ pc = "gg_check"
    /\ pc' = "popen"
    /\ UNCHANGED <<fileVars, ebVars, reqVars, execVars>>

\* `if model_path.exists(): return`
GgufExists ==
    /\ pc = "gg_check"
    /\ ggufFinal
    /\ pc' = "popen"
    /\ UNCHANGED <<fileVars, ebVars, reqVars, execVars>>

\* a download that writes straight to the final path
GgufOpenFinal ==
    /\ pc = "gg_check"
    /\ ~ggufFinal
    /\ ggufFinal' = TRUE
    /\ pc' = "gg_download"
    /\ UNCHANGED <<marker, bin, ggufTemp, ebVars, reqVars, execVars>>

\* `dl_path.open("wb")` creates (or truncates) the .temp sibling
GgufOpenTemp ==
    /\ pc = "gg_check"
    /\ ~ggufFinal
    /\ ggufTemp' = "partial"
    /\ pc' = "gg_download"
    /\ UNCHANGED <<marker, bin, ggufFinal, ebVars, reqVars, execVars>>

\* _progressive_download(model_url, dl_file) returns and the file is closed
GgufDownload ==
    /\ pc = "gg_download"
    /\ ggufTemp' = "complete"
    /\ pc' = "gg_rename"
    /\ UNCHANGED <<marker, bin, ggufFinal, ebVars, reqVars, execVars>>

\* _progressive_download raises: the error propagates, the .temp file stays
GgufDownloadFail ==
    /\ pc = "gg_download"
    /\ RequestRaises
    /\ UNCHANGED <<fileVars, ebVars, req, proc, spawns, nread, execVars>>

\* `dl_path.rename(model_path)`
GgufRename ==
    /\ pc = "gg_rename"
    /\ ggufFinal' = TRUE
    /\ ggufTemp' = "none"
    /\ pc' = "popen"
    /\ UNCHANGED <<marker, bin, ebVars, reqVars, execVars>>

\* ---------------------------------------------- _wrapper.py: generate_oneshot
\* `process = subprocess.Popen(...)`
Popen ==
    /\ pc = "popen"
    /\ proc' = [proc EXCEPT ![req] = "running"]
    /\ spawns' = [spawns EXCEPT ![req] = @ + 1]
    /\ pc' = "readline"
    /\ UNCHANGED <<fileVars, ebVars, req, gen, outcome, nread, execVars>>

\* Popen raises OSError (before the try): no process, no cleanup
PopenFail ==
    /\ pc = "popen"
    /\ RequestRaises
    /\ UNCHANGED <<fileVars, ebVars, req, proc, spawns, nread, execVars>>

\* a yield without strip()
YieldedUnstripped(raw) == raw

\* the value `yield line.decode("utf-8").strip()` hands to the consumer
Yielded(raw) == Strip(raw)

\* `while line := process.stdout.readline()` reads a line, which is decoded,
\* stripped and yielded: the generator is suspended in the try block
ReadLine ==
    /\ pc = "readline"
    /\ proc[req] = "running"
    /\ nread < MaxLines
    /\ \E g \in StreamLines :
        /\ curLine' = Yielded(Written(g))
        /\ hist' = Append(hist, g)
    /\ nread' = nread + 1
    /\ gen' = [gen EXCEPT ![req] = "suspended"]
    /\ pc' = "consume"
    /\ UNCHANGED <<fileVars, ebVars, req, proc, spawns, outcome, named, name, verts,
                   faces, mesh, clears, builds, redraws>>

\* the line is not UTF-8: decode raises inside the loop, `finally` kills
ReadUndecodable ==
    /\ pc = "readline"
    /\ proc[req] = "running"
    /\ nread < MaxLines
    /\ proc' = [proc EXCEPT ![req] = "killed"]
    /\ RequestRaises
    /\ UNCHANGED <<fileVars, ebVars, req, spawns, nread, execVars>>

\* the subprocess ends its output (it exits on its own)
ProcessExits(r) ==
    /\ proc[r] = "running"
    /\ proc' = [proc EXCEPT ![r] = "exited"]
    /\ UNCHANGED <<pc, fileVars, ebVars, req, gen, spawns, outcome, nread, execVars>>

\* readline() returns b"": the loop ends, process.wait(), `finally` kills, the
\* generator returns.  In `next(iterator)` the StopIteration is an error of
\* execute; in the for loop it ends the loop and execute returns FINISHED.
ReadEOF ==
    /\ pc = "readline"
    /\ proc[req] = "exited"
    /\ proc' = [proc EXCEPT ![req] = "killed"]
    /\ gen' = [gen EXCEPT ![req] = "finished"]
    /\ outcome' = [outcome EXCEPT ![req] = IF named THEN "finished" ELSE "error"]
    /\ pc' = "idle"
    /\ UNCHANGED <<fileVars, ebVars, req, spawns, nread, execVars>>

\* A generator left suspended at its yield is closed when the interpreter
\* finalizes it: GeneratorExit is raised at the yield and `finally` kills.
GeneratorFinalized(r) ==
    /\ gen[r] = "suspended"
    /\ r # req \/ pc = "idle"
    /\ gen' = [gen EXCEPT ![r] = "finished"]
    /\ proc' = [proc EXCEPT ![r] = "killed"]
    /\ UNCHANGED <<pc, fileVars, ebVars, req, spawns, outcome, nread, execVars>>

\* ----------------------------------------------- __init__.py: execute, part 2
\* mesh.clear_geometry() and mesh.from_pydata(verts, edges, faces), which adds
\* the given geometry to what the mesh holds
KeepGeometry(m) == m
clear_geometry(m) == NoMesh
from_pydata(m, vs, fs) == [verts |-> m.verts \o vs, faces |-> m.faces \o fs]

\* the for loop calls next(iterator): the generator runs on
Resume ==
    /\ gen' = [gen EXCEPT ![req] = "running"]
    /\ pc' = "readline"

\* `name = ...next(iterator)...`, then the mesh and the object are created
ConsumeName ==
    /\ pc = "consume"
    /\ ~named
    /\ name' = MeshName(curLine)
    /\ named' = TRUE
    /\ mesh' = NoMesh
    /\ Resume
    /\ UNCHANGED <<fileVars, ebVars, req, proc, spawns, outcome, nread, curLine, verts,
                   faces, clears, builds, redraws, hist>>

\* the statements after the if / elif: clear, rebuild, redraw
Rebuild(vs, fs) ==
    /\ clears' = clears + 1
    /\ mesh' = from_pydata(clear_geometry(mesh), vs, fs)
    /\ builds' = builds + 1
    /\ redraws' = redraws + 1

\* `if line.startswith("v "): verts.append(_obj_vertex_to_bpy(line))`
ConsumeVertex ==
    /\ pc = "consume"
    /\ named
    /\ IsVertexLine(curLine)
    /\ VertexOk(curLine)
    /\ verts' = Append(verts, obj_vertex_to_bpy(curLine))
    /\ Rebuild(verts', faces)
    /\ Resume
    /\ UNCHANGED <<fileVars, ebVars, req, proc, spawns, outcome, nread, curLine, named,
                   name, faces, hist>>

\* `elif line.startswith("f "): faces.append(_obj_face_to_bpy(line))`
ConsumeFace ==
    /\ pc = "consume"
    /\ named
    /\ IsFaceLine(curLine)
    /\ FaceOk(curLine)
    /\ faces' = Append(faces, obj_face_to_bpy(curLine))
    /\ Rebuild(verts, faces')
    /\ Resume
    /\ UNCHANGED <<fileVars, ebVars, req, proc, spawns, outcome, nread, curLine, named,
                   name, verts, hist>>

\* `else: continue`
ConsumeOther ==
    /\ pc = "consume"
    /\ named
    /\ ~IsVertexLine(curLine)
    /\ ~IsFaceLine(curLine)
    /\ Resume
    /\ UNCHANGED <<fileVars, ebVars, req, proc, spawns, outcome, nread, execVars>>

\* float() or int() raises ValueError: the error leaves execute while the
\* generator stays suspended at its yield, inside the try block
ConsumeRaises ==
    /\ pc = "consume"
    /\ named
    /\ \/ IsVertexLine(curLine) /\ ~VertexOk(curLine)
       \/ IsFaceLine(curLine) /\ ~FaceOk(curLine)
    /\ outcome' = [outcome EXCEPT ![req] = "error"]
    /\ pc' = "idle"
    /\ UNCHANGED <<fileVars, ebVars, req, proc, gen, spawns, nread, execVars>>

\* ------------------------------------------------------------ specifications
\* the steps of the UI thread that follow from a call already made
Running ==
    \/ EbReturnEarly \/ EbClear \/ EbDownload \/ EbDownloadFail
    \/ EbExtract \/ EbExtractFail \/ EbWriteMarker \/ ImportDone
    \/ NextStart
    \/ GgufExists \/ GgufOpenTemp \/ GgufDownload \/ GgufDownloadFail \/ GgufRename
    \/ Popen \/ PopenFail
    \/ ReadLine \/ ReadUndecodable \/ ReadEOF
    \/ ConsumeName \/ ConsumeVertex \/ ConsumeFace \/ ConsumeOther \/ ConsumeRaises

SubprocessStep == \E r \in Requests : ProcessExits(r)
Finalizer == \E r \in Requests : GeneratorFinalized(r)

Next ==
    \/ ImportModule
    \/ Restart
    \/ StartExecute
    \/ Running
    \/ SubprocessStep
    \/ Finalizer

Spec == Init /\ [][Next]_vars

\* A call that was made runs on (the thread blocks, it does not stop), and a
\* subprocess whose output is read ends its output.  Nothing makes the user
\* start another request or import, and nothing makes the interpreter
\* finalize a generator that is still referenced.
FairSpec == Spec /\ WF_vars(Running) /\ WF_vars(SubprocessStep)

\* ------------------------------------------- the conversions on their own
\* Inputs of the conversions: every face with indices up to MaxIndex, vertices
\* over a few coordinates in both number styles, each with every separator,
\* and lines of text.
Seps == {<<" ">>, <<" ", " ">>, <<"\t">>}
Coords == {Whole(0), Whole(1), Whole(2), Whole(3), Whole(10), Half, MinusOne,
           Num(FALSE, 12, <<"2", "5">>)}
GivenSpaced == TextLine(<<" ", "F", "a", "t", " ", " ", "V", "a", "s", "e", "\t">>,
                        <<"f", "a", "t", "_", "v", "a", "s", "e">>)
GivenSlashes == TextLine(<<"f", " ", "1", "/", "1", " ", "2", "/", "2", " ", "3", "/", "3">>,
                         <<"f", "_", "1", "/", "1", "_", "2", "/", "2", "_", "3", "/", "3">>)
ParseLines ==
    {FaceLine(i, j, k, sep) : i \in 1..MaxIndex, j \in 1..MaxIndex, k \in 1..MaxIndex, sep \in Seps}
        \cup {VertexLine(x, y, z, sep, style) :
                x \in Coords, y \in Coords, z \in Coords, sep \in Seps, style \in {"short", "padded"}}
        \cup {GivenName, GivenFence, GivenNormal, GivenGarbled, GivenSpaced, GivenSlashes}

\* execute holds a line the generator has just yielded: the first line of the
\* output, or the line after the name "Red Cube"
ParseInit ==
    /\ pc = "consume"
    /\ marker = MarkerText(PlatformSystem, LLAMA_CPP_BUILD)
    /\ bin = FullBin(PlatformSystem, LLAMA_CPP_BUILD)
    /\ ggufFinal = TRUE
    /\ ggufTemp = "none"
    /\ ebContent = <<>>
    /\ ebIdx = 0
    /\ ebLog = <<>>
    /\ req = 1
    /\ proc = [r \in Requests |-> IF r = 1 THEN "running" ELSE "none"]
    /\ gen = [r \in Requests |-> IF r = 1 THEN "suspended" ELSE "none"]
    /\ spawns = [r \in Requests |-> IF r = 1 THEN 1 ELSE 0]
    /\ outcome = [r \in Requests |-> IF r = 1 THEN "running" ELSE "none"]
    /\ named \in BOOLEAN
    /\ name = IF named THEN MeshName(Yielded(Written(GivenName))) ELSE <<>>
    /\ \E g \in ParseLines :
        /\ curLine = Yielded(Written(g))
        /\ hist = IF named THEN <<GivenName, g>> ELSE <<g>>
    /\ nread = Len(hist)
    /\ verts = <<>>
    /\ faces = <<>>
    /\ mesh = NoMesh
    /\ clears = 0
    /\ builds = 0
    /\ redraws = 0

ParseNext == ConsumeName \/ ConsumeVertex \/ ConsumeFace \/ ConsumeOther \/ ConsumeRaises

ParseSpec == ParseInit /\ [][ParseNext]_vars

\* ------------------------------------------------------------------ claims
\* what execute has dealt with: every yielded line but one it still holds
Processed == IF pc = "consume" THEN SubSeq(hist, 1, Len(hist) - 1) ELSE hist
\* the lines after the first that mean a vertex ("v") or a face ("f")
OfKind(h, k) == SelectSeq(SubSeq(h, 2, Len(h)), LAMBDA g : g.kind = k)
ExpectedFace(g) == <<g.vals[1].int - 1, g.vals[2].int - 1, g.vals[3].int - 1>>
ExpectedName(g) ==
    IF g.kind = "text" THEN g.expect
    ELSE <<g.kind, "_">> \o FormatNum(g.vals[1], g.style) \o <<"_">>
            \o FormatNum(g.vals[2], g.style) \o <<"_">> \o FormatNum(g.vals[3], g.style)

CurrentMarker == MarkerText(PlatformSystem, LLAMA_CPP_BUILD)
\* the first line of the marker file is the system, the second the build
MarkerNamesCurrent ==
    /\ Len(SplitLines(marker)) >= 2
    /\ SplitLines(marker)[1] = PlatformSystem
    /\ SplitLines(marker)[2] = LLAMA_CPP_BUILD
\* clear bin/, download, extract every member, write the marker
RedownloadLog ==
    <<"clear", "download">> \o [i \in 1..Len(ArchiveNames) |-> "extract"] \o <<"marker">>

\* C1: _ensure_binary redownloads exactly when the marker differs.  When the
\* marker's first line is platform.system() and its second line the build id,
\* the call returns having deleted nothing, downloaded nothing and written
\* nothing; otherwise its next step empties bin/, and what it does from there
\* is a prefix of: clear, download, extract each member, write the marker.
\* The marker changes only as the last of these, and a call that returns has
\* done none or all of them (then bin/ holds the archive and the marker names
\* the current system and build).
EnsureBinaryGate ==
    /\ [][pc = "eb_check" =>
            IF MarkerNamesCurrent
            THEN pc' = "eb_returned" /\ marker' = marker /\ bin' = bin /\ ebLog' = <<>>
            ELSE pc' = "eb_download" /\ marker' = marker /\ bin' = {} /\ ebLog' = <<"clear">>]_vars
    /\ [][marker' # marker => ebLog' = RedownloadLog /\ marker' = CurrentMarker]_vars
    /\ [](\E n \in 0..Len(RedownloadLog) : ebLog = SubSeq(RedownloadLog, 1, n))
    /\ [](pc = "eb_returned" =>
            \/ ebLog = <<>>
            \/ /\ ebLog = RedownloadLog
               /\ marker = CurrentMarker
               /\ bin = FullBin(PlatformSystem, LLAMA_CPP_BUILD))

\* a call of _ensure_binary has redownloaded and returned
EnsureBinaryRedownloaded == pc = "eb_returned" /\ ebLog = RedownloadLog

\* C2: every subprocess generate_oneshot has spawned is eventually killed
\* (process.kill() is called), whether stdout ended, the read loop raised or
\* the consumer failed on a yielded line.
EverySubprocessKilled ==
    \A r \in Requests : (proc[r] \in {"running", "exited"}) ~> (proc[r] = "killed")

\* C3: each generate_oneshot run spawns one subprocess and at most one spawned
\* subprocess is alive at any time.
AtMostOneSubprocessAlive ==
    /\ \A r \in Requests : spawns[r] <= 1
    /\ Cardinality({r \in Requests : proc[r] = "running"}) <= 1

\* C4: a face line "f i j k" becomes (i-1, j-1, k-1), in this order, and the
\* faces list and the faces of the mesh hold exactly these triples.
FacesDecremented ==
    LET fs == OfKind(Processed, "f") IN
        /\ faces = [n \in 1..Len(fs) |-> ExpectedFace(fs[n])]
        /\ mesh.faces = faces

\* "f 1 2 3" has yielded (0, 1, 2)
FaceConverted ==
    /\ hist = <<GivenName, FaceLine(1, 2, 3, <<" ">>)>>
    /\ faces = << <<0, 1, 2>> >>
    /\ mesh.faces = faces

\* C5: a vertex line "v x y z" becomes the triple of its three values, in
\* this order and unchanged, whatever whitespace separates the tokens.
VertsUnchanged ==
    LET vs == OfKind(Processed, "v") IN
        /\ verts = [n \in 1..Len(vs) |-> vs[n].vals]
        /\ mesh.verts = verts

\* "v <tab> 1.0 <tab> 2.0 <tab> 3.0" has yielded (1.0, 2.0, 3.0)
VertexConverted ==
    /\ hist = <<GivenName, VertexLine(Whole(1), Whole(2), Whole(3), <<"\t">>, "padded")>>
    /\ verts = << <<Whole(1), Whole(2), Whole(3)>> >>

\* the line execute holds starts with neither "v " nor "f "
NeitherPrefix ==
    \/ Len(curLine) < 2
    \/ curLine[1] \notin {"v", "f"}
    \/ curLine[2] # " "

\* C6: a line after the first that starts with neither "v " nor "f " is
\* ignored: verts, faces and the mesh stay as they are, nothing is cleared,
\* rebuilt or redrawn, and execute goes on to read the next line (it does
\* not end or fail).
OtherLinesIgnored ==
    [][pc = "consume" /\ named /\ NeitherPrefix =>
            /\ UNCHANGED <<verts, faces, mesh, clears, builds, redraws, name>>
            /\ pc' \in {"consume", "readline"}]_vars

\* a vertex normal was read after a vertex and ignored
OtherLineIgnored ==
    /\ pc = "readline"
    /\ Len(hist) = 3
    /\ hist[2].kind = "v"
    /\ hist[3] = GivenNormal
    /\ Len(verts) = 1
    /\ redraws = 1

FirstLineIsName ==
    /\ ~named => Len(hist) <= 1 /\ verts = <<>> /\ faces = <<>> /\ redraws = 0
    /\ named =>
        /\ name = ExpectedName(hist[1])
        /\ Len(verts) = Len(OfKind(Processed, "v"))
        /\ Len(faces) = Len(OfKind(Processed, "f"))

\* a first line "v 1 2 3" named the mesh "v_1_2_3" and added no vertex
VertexLineTakenAsName ==
    /\ named
    /\ pc = "readline"
    /\ hist = <<VertexLine(Whole(1), Whole(2), Whole(3), <<" ">>, "short")>>
    /\ name = <<"v", "_", "1", "_", "2", "_", "3">>
    /\ verts = <<>>

\* C9: after the k-th parsed line the mesh holds exactly the first k parsed
\* elements, in stream order, and was cleared, rebuilt and redrawn k times.
MeshRebuiltPerLine ==
    LET vs == OfKind(Processed, "v")
        fs == OfKind(Processed, "f")
    IN  /\ mesh.verts = [n \in 1..Len(vs) |-> vs[n].vals]
        /\ mesh.faces = [n \in 1..Len(fs) |-> ExpectedFace(fs[n])]
        /\ redraws = Len(vs) + Len(fs)
        /\ builds = redraws
        /\ clears = redraws
        /\ Len(verts) + Len(faces) = redraws

\* two vertices were parsed: the mesh holds both, after two redraws
TwoLinesRebuilt ==
    /\ pc = "readline"
    /\ Len(hist) = 3
    /\ hist[2].kind = "v"
    /\ hist[3].kind = "v"
    /\ hist[2] # hist[3]
    /\ mesh.verts = <<hist[2].vals, hist[3].vals>>
    /\ redraws = 2

\* C10: Popen happens only after _ensure_binary and _ensure_gguf have returned
\* without error: a subprocess appears only for the request in progress, with
\* the marker naming the installed binary and the model file in place; a
\* request that ended (with an error or not) never gets a subprocess later.
SpawnOnlyAfterEnsured ==
    /\ [][\A r \in Requests :
            (proc[r] = "none" /\ proc'[r] # "none") =>
                /\ r = req
                /\ outcome[r] = "running"
                /\ marker = CurrentMarker
                /\ bin = FullBin(PlatformSystem, LLAMA_CPP_BUILD)
                /\ ggufFinal]_vars
    /\ [][\A r \in Requests :
            outcome[r] \notin {"none", "running"} =>
                /\ outcome'[r] = outcome[r]
                /\ proc[r] = "none" => proc'[r] = "none"]_vars

\* a request that raised before Popen has no subprocess, the next one has
SpawnedAfterFailedRequest ==
    /\ req = 2
    /\ outcome[1] = "error"
    /\ proc[1] = "none"
    /\ proc[2] = "running"

\* C11: a failed model download propagates and leaves no file under the final
\* name.  The final path comes to exist only by the rename, which follows a
\* download that returned into the .temp sibling.  _ensure_gguf looks at the
\* final path once: when it exists the constructor goes on to Popen with no
\* download and no file touched, otherwise the download starts on the .temp
\* file.  A download is entered only from that check (no second attempt), and
\* it ends either in the rename or in the error leaving the generator and
\* execute, the final path still missing and the partial .temp file left
\* behind, so that the check of a later request starts the download again.
FailedDownloadLeavesNoModel ==
    /\ [][ggufFinal' # ggufFinal =>
            pc = "gg_rename" /\ ggufTemp = "complete" /\ ggufFinal' /\ ggufTemp' = "none"]_vars
    /\ [][pc = "gg_check" /\ pc' # pc =>
            IF ggufFinal
            THEN pc' = "popen" /\ ggufFinal' /\ ggufTemp' = ggufTemp
            ELSE pc' = "gg_download" /\ ~ggufFinal' /\ ggufTemp' = "partial"]_vars
    /\ [][pc' = "gg_download" /\ pc # pc' => pc = "gg_check"]_vars
    /\ [][pc' = "gg_check" /\ pc # pc' => pc = "ex_first" /\ req' = req]_vars
    /\ [][pc = "gg_download" /\ pc' # pc =>
            \/ pc' = "gg_rename" /\ ggufTemp' = "complete" /\ ~ggufFinal'
                    /\ outcome'[req] = "running"
            \/ /\ pc' = "idle"
               /\ outcome'[req] = "error"
               /\ gen'[req] = "finished"
               /\ proc'[req] = "none"
               /\ ~ggufFinal'
               /\ ggufTemp' = "partial"]_vars
    /\ [](pc \in {"gg_download", "gg_rename"} => ~ggufFinal)
    /\ [](\A r \in Requests : spawns[r] > 0 => ggufFinal)

\* the download of request 1 failed, and request 2 is downloading again
DownloadedAgainAfterFailure ==
    /\ req = 2
    /\ outcome[1] = "error"
    /\ proc[1] = "none"
    /\ pc = "gg_download"
    /\ ~ggufFinal
    /\ ggufTemp = "partial"

\* no call of _ensure_binary is under way
EnsureBinaryAtRest == pc \notin {"eb_check", "eb_download", "eb_extract"}
\* the marker file records system sys on its first line and build on its second
MarkerRecords(sys, build) ==
    /\ Len(SplitLines(Strip(marker))) = 2
    /\ SplitLines(Strip(marker))[1] = sys
    /\ SplitLines(Strip(marker))[2] = build

\* C12: whenever no _ensure_binary call is under way, whatever calls ran
\* before and wherever they failed, the marker describes bin/: if it records
\* system P and build B, bin/ holds every file of the archive for P and B.
MarkerDescribesBin ==
    EnsureBinaryAtRest =>
        \A sys \in Systems, build \in Builds :
            MarkerRecords(sys, build) => bin = FullBin(sys, build)

====
